---- MODULE Spec2Model ----
(***************************************************************************)
(* Model of src/app.py: the two dissociation endpoints of the Flask        *)
(* application (dissociate_terms, dissociate_locations), the lazily        *)
(* memoised engine (get_engine) and the store they query.                  *)
(*                                                                         *)
(* Text is modelled as a sequence of one-character strings, so that        *)
(* pattern matching, splitting, parsing and page rendering are computed    *)
(* and not assumed.  The fixed fragments of the page template are single   *)
(* tokens (for instance "<b>"); every interpolated value contributes its   *)
(* own characters.                                                         *)
(***************************************************************************)
EXTENDS Integers, Sequences, FiniteSets, TLC

VARIABLES
    DB_URL,        \* os.getenv("DB_URL"): NoUrl or a connection string
    engine,        \* the module global _engine (NoEngine = None)
    annotations,   \* ns.annotations_terms: set of <<study_id, term>>
    coordinates,   \* ns.coordinates: set of <<study_id, <<x, y, z>>>>
    metadata,      \* ns.metadata: function from the ids that have a row to titles
    pc,            \* position of the request being served
    req,           \* the request: endpoint, the two path segments, Accept
    xyz,           \* <<(x1,y1,z1), (x2,y2,z2)>> after parsing
    conn,          \* connections currently checked out by the request
    acquired,      \* connections the request has checked out so far
    log,           \* statements the request has sent to the store, in order
    study_ids,     \* dissociate_terms: study_ids
    studies_a,     \* dissociate_locations: studies_a
    studies_b,     \* dissociate_locations: studies_b
    dissoc_a_b,    \* dissociate_locations: dissoc_a_b
    dissoc_b_a,    \* dissociate_locations: dissoc_b_a
    meta,          \* studies (term mode) / meta_dict (coordinate mode)
    exc,           \* pending exception message, NoExc when none
    ret,           \* value of the return statement reached inside the handler
    resp,          \* the response the client receives
    probe,         \* pattern matching in isolation: <<term, annotation term>>
    matched        \* pattern matching in isolation: result of the probe

vars == <<DB_URL, engine, annotations, coordinates, metadata, pc, req, xyz,
          conn, acquired, log, study_ids, studies_a, studies_b, dissoc_a_b,
          dissoc_b_a, meta, exc, ret, resp, probe, matched>>

(***************************************************************************)
(* Bounds of the model.                                                    *)
(***************************************************************************)
\* study ids are 1..MaxStudy
MaxStudy == 2
\* row cap of the term difference query and of its metadata query
\* (LIMIT 50 in the source, scaled so that truncation happens)
TermLimit == 1
\* row cap of get_studies (LIMIT 100 in the source, scaled likewise)
CoordLimit == 1
\* longest term and annotation probed by the isolated pattern matching
MaxLen == 2

Studies == 1..MaxStudy

(***************************************************************************)
(* Text helpers.                                                           *)
(***************************************************************************)
Min(a, b) == IF a < b THEN a ELSE b

RECURSIVE Concat(_)
\* ''.join(parts)
Concat(parts) ==
    IF parts = <<>> THEN <<>> ELSE Head(parts) \o Concat(Tail(parts))

\* v occurs in s as a contiguous run
Contains(s, v) ==
    \E i \in 1..(Len(s) - Len(v) + 1) : SubSeq(s, i, i + Len(v) - 1) = v

\* all sequences over S of length at most n
SeqsUpTo(S, n) == UNION {[1..k -> S] : k \in 0..n}

\* all orderings of the finite set S
Perms(S) ==
    {p \in [1..Cardinality(S) -> S] : \A i, j \in DOMAIN p : p[i] = p[j] => i = j}

\* str(n) for a study id
Str(n) == <<CASE n = 0 -> "0" [] n = 1 -> "1" [] n = 2 -> "2" [] n = 3 -> "3"
              [] n = 4 -> "4" [] n = 5 -> "5" [] OTHER -> "9">>

\* Python None, as it appears in a row or a dictionary lookup
None == <<"None">>

(***************************************************************************)
(* Term matching: a.term ILIKE '%' || term || '%'  (src/app.py 102-112).   *)
(***************************************************************************)
LowerChar(c) ==
    CASE c = "A" -> "a" [] c = "B" -> "b" [] OTHER -> c

Lower(s) == [i \in DOMAIN s |-> LowerChar(s[i])]

RECURSIVE LikeMatch(_, _)
\* PostgreSQL LIKE: % any run, _ any one character, \ quotes the next one
LikeMatch(s, p) ==
    IF p = <<>> THEN s = <<>>
    ELSE IF Head(p) = "%" THEN
        LikeMatch(s, Tail(p)) \/ (s # <<>> /\ LikeMatch(Tail(s), p))
    ELSE IF Head(p) = "_" THEN
        s # <<>> /\ LikeMatch(Tail(s), Tail(p))
    ELSE IF Head(p) = "\\" THEN
        /\ Len(p) >= 2
        /\ s # <<>>
        /\ Head(s) = p[2]
        /\ LikeMatch(Tail(s), Tail(Tail(p)))
    ELSE
        s # <<>> /\ Head(s) = Head(p) /\ LikeMatch(Tail(s), Tail(p))

\* s ILIKE p
ILike(s, p) == LikeMatch(Lower(s), Lower(p))

\* f"%{term}%"
WrapTerm(term) == <<"%">> \o term \o <<"%">>

\* the rows' predicate: term ILIKE :term with the bound parameter
TermMatches(annTerm, term) == ILike(annTerm, WrapTerm(term))

(***************************************************************************)
(* Coordinate parsing: map(float, coords.split("_"))  (src/app.py 167-171) *)
(***************************************************************************)
RECURSIVE Split(_, _)
\* s.split(sep), sep a single character
Split(s, sep) ==
    IF \A i \in DOMAIN s : s[i] # sep THEN <<s>>
    ELSE LET k == CHOOSE i \in DOMAIN s : s[i] = sep /\ \A j \in 1..(i - 1) : s[j] # sep
         IN  <<SubSeq(s, 1, k - 1)>> \o Split(SubSeq(s, k + 1, Len(s)), sep)

Digits == {"0", "1", "2", "3", "4", "5", "6", "7", "8", "9"}

DigitVal(c) ==
    CASE c = "0" -> 0 [] c = "1" -> 1 [] c = "2" -> 2 [] c = "3" -> 3 [] c = "4" -> 4
      [] c = "5" -> 5 [] c = "6" -> 6 [] c = "7" -> 7 [] c = "8" -> 8 [] OTHER -> 9

RECURSIVE IntVal(_)
IntVal(ds) ==
    IF ds = <<>> THEN 0 ELSE IntVal(SubSeq(ds, 1, Len(ds) - 1)) * 10 + DigitVal(ds[Len(ds)])

\* the text without its optional sign
Unsigned(s) == IF s # <<>> /\ Head(s) \in {"-", "+"} THEN Tail(s) ELSE s

\* digits before and after the decimal point (all of it before, when there is none)
IntPart(u) ==
    IF \E i \in DOMAIN u : u[i] = "."
    THEN SubSeq(u, 1, (CHOOSE i \in DOMAIN u : u[i] = "." /\ \A j \in 1..(i - 1) : u[j] # ".") - 1)
    ELSE u

FracPart(u) ==
    IF \E i \in DOMAIN u : u[i] = "."
    THEN SubSeq(u, (CHOOSE i \in DOMAIN u : u[i] = "." /\ \A j \in 1..(i - 1) : u[j] # ".") + 1, Len(u))
    ELSE <<>>

\* float(s) does not raise ValueError.  Decimal literals only: float() also
\* accepts exponents, surrounding blanks and the inf/nan spellings, none of
\* which occurs in the texts of the model.
IsFloat(s) ==
    LET u == Unsigned(s) IN
    /\ \A i \in DOMAIN IntPart(u) : IntPart(u)[i] \in Digits
    /\ \A i \in DOMAIN FracPart(u) : FracPart(u)[i] \in Digits
    /\ Len(IntPart(u)) + Len(FracPart(u)) >= 1

\* float(s), in thousandths (exact for texts with at most three decimals)
FloatVal(s) ==
    LET u == Unsigned(s)
        f == FracPart(u) \o <<"0", "0", "0">>
        m == IntVal(IntPart(u)) * 1000 + IntVal(SubSeq(f, 1, 3))
    IN  IF s # <<>> /\ Head(s) = "-" THEN 0 - m ELSE m

\* parsing that reads the first three components and ignores any further one
ParseRaises_ExtraIgnored(coords) ==
    LET parts == Split(coords, "_") IN
    \/ Len(parts) < 3
    \/ \E i \in 1..3 : ~IsFloat(parts[i])

\* x, y, z = map(float, coords.split("_")) raises ValueError
ParseRaises(coords) ==
    LET parts == Split(coords, "_") IN
    \/ Len(parts) # 3
    \/ \E i \in DOMAIN parts : ~IsFloat(parts[i])

\* the triple bound by x, y, z = map(float, coords.split("_"))
ParseCoords(coords) ==
    LET parts == Split(coords, "_") IN
    <<FloatVal(parts[1]), FloatVal(parts[2]), FloatVal(parts[3])>>

(***************************************************************************)
(* Content negotiation: request.accept_mimetypes.accept_html               *)
(* (src/app.py 129, 219).  An Accept header is the sequence of its items,  *)
(* each a media range with its quality in tenths.                          *)
(***************************************************************************)
MT(t, s) == [type |-> t, subtype |-> s]

TextHtml == MT("text", "html")
AppJson == MT("application", "json")
AppXhtml == MT("application", "xhtml+xml")
AppXml == MT("application", "xml")
Wildcard == MT("*", "*")

\* MIMEAccept._value_matches(value, item)
ValueMatches(value, item) ==
    IF item.type = "*" /\ item.subtype # "*" THEN FALSE
    ELSE \/ item.type = "*" /\ item.subtype = "*"
         \/ /\ item.type = value.type
            /\ (item.subtype = "*" \/ item.subtype = value.subtype)

\* value in accept: some item matches, whatever its quality
InAccept(value, accept) ==
    \E i \in DOMAIN accept : ValueMatches(value, accept[i].range)

\* MIMEAccept.accept_html
AcceptHtml(accept) ==
    \/ InAccept(TextHtml, accept)
    \/ InAccept(AppXhtml, accept)
    \/ InAccept(AppXml, accept)

(***************************************************************************)
(* Inputs of the model: the bounded sets requests and store rows come from.*)
(***************************************************************************)
\* path segments of /dissociate/terms/<term_a>/<term_b>
Terms == {<<"a">>, <<"<">>}

\* values of the term column
AnnTerms == {<<"A", "x">>, <<"<", "b">>}

\* values of the title column
Titles == {<<"T", "&", "<">>}

\* path segments of /dissociate/locations/<coords_a>/<coords_b>
CoordStrs ==
    { <<"1", "_", "1", "_", "1">>,
      <<"2", ".", "0", "_", "1", "_", "1">>,
      <<"a", "_", "1", "_", "1">>,
      <<"1", "_", "1">>,
      <<"1", "_", "1", "_", "1", "_", "1">> }

\* values of (ST_X(geom), ST_Y(geom), ST_Z(geom)), in thousandths
Points == {<<1000, 1000, 1000>>, <<2000, 1000, 1000>>}

Item(r, q) == [range |-> r, q |-> q]

\* Accept headers, parsed: absent, */*, text/html, and application/json
\* with text/html at lower quality
Accepts ==
    { <<>>,
      <<Item(Wildcard, 10)>>,
      <<Item(TextHtml, 10)>>,
      <<Item(AppJson, 10), Item(TextHtml, 5)>> }

NoUrl == "None"
NoEngine == "None"
NoExc == ""
\* a local the handler has not assigned yet
Unbound == <<0>>
UnboundSet == {0}
NoReq == [endpoint |-> "none", a |-> <<>>, b |-> <<>>, accept |-> <<>>]
NoData == [none |-> TRUE]
NoResp == [status |-> 0, kind |-> "none", data |-> NoData, html |-> <<>>]

\* jsonify(data), status
Json(data, status) == [status |-> status, kind |-> "json", data |-> data, html |-> <<>>]

\* make_response(html, 200); data records what the page was rendered from
Html(html, data) == [status |-> 200, kind |-> "html", data |-> data, html |-> html]

\* Flask's answer to an exception that leaves the view function
Unhandled == [status |-> 500, kind |-> "unhandled", data |-> NoData, html |-> <<>>]

(***************************************************************************)
(* get_engine  (src/app.py 10-24)                                          *)
(***************************************************************************)
\* db_url.startswith("postgres://") -> "postgresql://" + rest
NormalizeUrl(url) == IF url = "postgres://db" THEN "postgresql://db" ELSE url

\* get_engine raises RuntimeError
GetEngineRaises == engine = NoEngine /\ DB_URL = NoUrl

\* _engine after a call that returns
EngineAfterGet == IF engine # NoEngine THEN engine ELSE NormalizeUrl(DB_URL)

(***************************************************************************)
(* The queries  (src/app.py 102-124, 180-189, 200-205)                     *)
(***************************************************************************)
\* LIMIT n without ORDER BY: any n of the rows (all of them when fewer)
Limit(rows, n) == {T \in SUBSET rows : Cardinality(T) = Min(n, Cardinality(rows))}

\* SELECT study_id FROM ns.annotations_terms WHERE term ILIKE :term
ResolveTerm(term) == {r[1] : r \in {x \in annotations : TermMatches(x[2], term)}}

\* the difference query with its NOT IN clause left out
DiffRows_NoExclusion(term_a, term_b) == ResolveTerm(term_a)

\* SELECT DISTINCT a.study_id ... WHERE a.term ILIKE :term_a
\*   AND a.study_id NOT IN (SELECT study_id ... WHERE term ILIKE :term_b)
DiffRows(term_a, term_b) ==
    {sid \in ResolveTerm(term_a) : sid \notin ResolveTerm(term_b)}

\* SELECT DISTINCT study_id FROM ns.coordinates WHERE ST_X = :x AND ST_Y = :y AND ST_Z = :z
CoordRows(p) == {r[1] : r \in {x \in coordinates : x[2] = p}}

\* SELECT study_id, title FROM ns.metadata WHERE study_id = ANY(:ids)
MetaRows(ids) == {[study_id |-> i, title |-> metadata[i]] : i \in (DOMAIN metadata) \cap ids}

\* the elements of a list
Range(f) == {f[i] : i \in DOMAIN f}

(***************************************************************************)
(* Payloads and pages  (src/app.py 116, 126, 130-157, 211-253)             *)
(***************************************************************************)
\* data of dissociate_terms; with no study_ids the list is empty and count 0
TermData(term_a, term_b, studies) ==
    [term_a |-> term_a, term_b |-> term_b, count |-> Len(studies), studies |-> studies]

\* meta_dict.get(sid)
MetaGet(meta_dict, sid) == IF sid \in DOMAIN meta_dict THEN meta_dict[sid] ELSE None

\* [{"study_id": sid, "title": meta_dict.get(sid)} for sid in ids]
Entries(ids, meta_dict) ==
    [i \in DOMAIN ids |-> [study_id |-> ids[i], title |-> MetaGet(meta_dict, ids[i])]]

\* data of dissociate_locations
LocData(pa, pb, ab, ba, meta_dict) ==
    [coords_a |-> pa, coords_b |-> pb,
     A_minus_B |-> Entries(ab, meta_dict), B_minus_A |-> Entries(ba, meta_dict)]

\* f"<tr><td>{s['study_id']}</td><td>{s.get('title','(no title)')}</td></tr>"
RowHtml(s) ==
    <<"<tr><td>">> \o Str(s.study_id) \o <<"</td><td>">> \o s.title \o <<"</td></tr>">>

\* ''.join(row for s in studies)
RowsHtml(studies) == Concat([i \in DOMAIN studies |-> RowHtml(studies[i])])

\* the page of dissociate_terms
TermsPage(data) ==
    <<"<html><head>..</head><body><h2>Dissociate by Terms</h2>">>
    \o <<"<p>Studies mentioning <b>">> \o data.term_a
    \o <<"</b> but not <b>">> \o data.term_b \o <<"</b></p>">>
    \o <<"<p class=count>Count: ">> \o Str(data.count) \o <<"</p>">>
    \o <<"<table><tr><th>Study ID</th><th>Title</th></tr>">>
    \o RowsHtml(data.studies)
    \o <<"</table></body></html>">>

\* the page of dissociate_locations
LocationsPage(coords_a, coords_b, data) ==
    <<"<html><head>..</head><body><h2>Dissociate by Coordinates</h2>">>
    \o <<"<p>Comparing <b>">> \o coords_a \o <<"</b> vs <b>">> \o coords_b \o <<"</b></p>">>
    \o <<"<h3>A - B Studies that mention ">> \o coords_a \o <<" but not ">> \o coords_b
    \o <<".</h3><table><tr><th>Study ID</th><th>Title</th></tr>">>
    \o RowsHtml(data.A_minus_B)
    \o <<"</table><h3>B - A Studies that mention ">> \o coords_b \o <<" but not ">> \o coords_a
    \o <<".</h3><table><tr><th>Study ID</th><th>Title</th></tr>">>
    \o RowsHtml(data.B_minus_A)
    \o <<"</table></body></html>">>

(***************************************************************************)
(* The state machine.                                                      *)
(***************************************************************************)
db == <<DB_URL, annotations, coordinates, metadata>>
locals == <<xyz, study_ids, studies_a, studies_b, dissoc_a_b, dissoc_b_a, meta>>
isolated == <<probe, matched>>

\* the stores of the model: rows over the bounded sets; no handler reads both
\* resolved tables, so one of the two is left empty
Stores ==
    /\ DB_URL \in {NoUrl, "postgres://db"}
    /\ annotations \in SUBSET (Studies \X AnnTerms)
    /\ coordinates \in SUBSET (Studies \X Points)
    /\ annotations = {} \/ coordinates = {}
    /\ metadata \in UNION {[D -> Titles] : D \in SUBSET Studies}

NoRequest ==
    /\ pc = "idle"
    /\ req = NoReq
    /\ xyz = Unbound
    /\ conn = 0
    /\ acquired = 0
    /\ log = <<>>
    /\ study_ids = Unbound
    /\ studies_a = UnboundSet
    /\ studies_b = UnboundSet
    /\ dissoc_a_b = Unbound
    /\ dissoc_b_a = Unbound
    /\ meta = Unbound
    /\ exc = NoExc
    /\ ret = NoResp
    /\ resp = NoResp

Init ==
    /\ Stores
    /\ engine = NoEngine
    /\ NoRequest
    /\ probe = <<>>
    /\ matched = "unknown"

\* a GET arrives at one of the two dissociation routes
Request ==
    /\ pc = "idle"
    /\ \E ep \in {"terms", "locations"}, accept \in Accepts :
         \E a, b \in (IF ep = "terms" THEN Terms ELSE CoordStrs) :
            /\ req' = [endpoint |-> ep, a |-> a, b |-> b, accept |-> accept]
            /\ pc' = IF ep = "terms" THEN "get_engine" ELSE "parse"
    /\ UNCHANGED <<db, engine, locals, conn, acquired, log, exc, ret, resp, isolated>>

\* dissociate_locations, the first try block (src/app.py 167-171)
Parse ==
    /\ pc = "parse"
    /\ IF ParseRaises(req.a) \/ ParseRaises(req.b)
       THEN /\ resp' = Json([error |-> "Invalid coordinate format. Use x_y_z with underscores."], 400)
            /\ pc' = "done"
            /\ xyz' = xyz
       ELSE /\ xyz' = <<ParseCoords(req.a), ParseCoords(req.b)>>
            /\ pc' = "get_engine"
            /\ resp' = resp
    /\ UNCHANGED <<db, engine, req, conn, acquired, log, study_ids, studies_a, studies_b,
                   dissoc_a_b, dissoc_b_a, meta, exc, ret, isolated>>

\* eng = get_engine(), outside the try block (src/app.py 96, 173)
GetEngine ==
    /\ pc = "get_engine"
    /\ log' = Append(log, "get_engine")
    /\ IF GetEngineRaises
       THEN /\ exc' = "Missing DB_URL (or DATABASE_URL) environment variable."
            /\ resp' = Unhandled
            /\ pc' = "done"
            /\ engine' = engine
       ELSE /\ engine' = EngineAfterGet
            /\ pc' = "begin"
            /\ UNCHANGED <<exc, resp>>
    /\ UNCHANGED <<db, req, locals, conn, acquired, ret, isolated>>

\* with eng.begin() as conn: a connection is checked out and a transaction begun
Begin ==
    /\ pc = "begin"
    /\ log' = Append(log, "begin")
    /\ \E ok \in BOOLEAN :
         IF ok
         THEN /\ conn' = conn + 1
              /\ acquired' = acquired + 1
              /\ pc' = "set_path"
              /\ exc' = exc
         ELSE /\ exc' = "connection failed"
              /\ pc' = "except"
              /\ UNCHANGED <<conn, acquired>>
    /\ UNCHANGED <<db, engine, req, locals, ret, resp, isolated>>

\* conn.execute(text("SET search_path TO ns, public;"))  (src/app.py 99, 176)
SetSearchPath ==
    /\ pc = "set_path"
    /\ log' = Append(log, "SET")
    /\ \E ok \in BOOLEAN :
         IF ok
         THEN /\ pc' = IF req.endpoint = "terms" THEN "query" ELSE "query_a"
              /\ exc' = exc
         ELSE /\ exc' = "SET search_path failed"
              /\ pc' = "unwind"
    /\ UNCHANGED <<db, engine, req, locals, conn, acquired, ret, resp, isolated>>

\* the difference query of dissociate_terms (src/app.py 102-113)
TermsQuery ==
    /\ pc = "query"
    /\ log' = Append(log, "DIFF")
    /\ \E ok \in BOOLEAN :
         IF ok
         THEN /\ \E T \in Limit(DiffRows(req.a, req.b), TermLimit) :
                   \E p \in Perms(T) : study_ids' = p
              /\ pc' = "enrich_t"
              /\ exc' = exc
         ELSE /\ exc' = "difference query failed"
              /\ pc' = "unwind"
              /\ study_ids' = study_ids
    /\ UNCHANGED <<db, engine, req, xyz, studies_a, studies_b, dissoc_a_b, dissoc_b_a,
                   meta, conn, acquired, ret, resp, isolated>>

\* the metadata query issued whatever the ids
TermsNeedsLookup_Always(ids) == TRUE

\* "if not study_ids" is false: the metadata query is issued (src/app.py 115)
TermsNeedsLookup(ids) == ids # <<>>

\* the metadata step of dissociate_terms (src/app.py 115-126)
EnrichTerms ==
    /\ pc = "enrich_t"
    /\ IF TermsNeedsLookup(study_ids)
       THEN /\ log' = Append(log, "META")
            /\ \E ok \in BOOLEAN :
                 IF ok
                 THEN /\ \E T \in Limit(MetaRows(Range(study_ids)), TermLimit) :
                           \E p \in Perms(T) : meta' = p
                      /\ pc' = "render_t"
                      /\ exc' = exc
                 ELSE /\ exc' = "metadata query failed"
                      /\ pc' = "unwind"
                      /\ meta' = meta
       ELSE /\ meta' = <<>>
            /\ pc' = "render_t"
            /\ UNCHANGED <<log, exc>>
    /\ UNCHANGED <<db, engine, req, xyz, study_ids, studies_a, studies_b, dissoc_a_b,
                   dissoc_b_a, conn, acquired, ret, resp, isolated>>

\* the return statement of dissociate_terms, reached inside the with block
\* (src/app.py 129-159)
RenderTerms ==
    /\ pc = "render_t"
    /\ LET data == TermData(req.a, req.b, meta) IN
         ret' = IF AcceptHtml(req.accept)
                THEN Html(TermsPage(data), data)
                ELSE Json(data, 200)
    /\ pc' = "exit"
    /\ UNCHANGED <<db, engine, req, locals, conn, acquired, log, exc, resp, isolated>>

\* get_studies(x1, y1, z1) (src/app.py 179-191)
QueryA ==
    /\ pc = "query_a"
    /\ log' = Append(log, "COORD")
    /\ \E ok \in BOOLEAN :
         IF ok
         THEN /\ \E T \in Limit(CoordRows(xyz[1]), CoordLimit) : studies_a' = T
              /\ pc' = "query_b"
              /\ exc' = exc
         ELSE /\ exc' = "coordinate query failed"
              /\ pc' = "unwind"
              /\ studies_a' = studies_a
    /\ UNCHANGED <<db, engine, req, xyz, study_ids, studies_b, dissoc_a_b, dissoc_b_a,
                   meta, conn, acquired, ret, resp, isolated>>

\* get_studies(x2, y2, z2) (src/app.py 179-189, 192)
QueryB ==
    /\ pc = "query_b"
    /\ log' = Append(log, "COORD")
    /\ \E ok \in BOOLEAN :
         IF ok
         THEN /\ \E T \in Limit(CoordRows(xyz[2]), CoordLimit) : studies_b' = T
              /\ pc' = "diff"
              /\ exc' = exc
         ELSE /\ exc' = "coordinate query failed"
              /\ pc' = "unwind"
              /\ studies_b' = studies_b
    /\ UNCHANGED <<db, engine, req, xyz, study_ids, studies_a, dissoc_a_b, dissoc_b_a,
                   meta, conn, acquired, ret, resp, isolated>>

\* the left operand returned whole, nothing subtracted
SetMinus_Keep(A, B) == A

\* studies_a - studies_b on Python sets
SetMinus(A, B) == A \ B

\* dissoc_a_b, dissoc_b_a: the differences as lists, in set iteration order
\* (src/app.py 194-195)
Difference ==
    /\ pc = "diff"
    /\ \E p \in Perms(SetMinus(studies_a, studies_b)) : dissoc_a_b' = p
    /\ \E q \in Perms(SetMinus(studies_b, studies_a)) : dissoc_b_a' = q
    /\ pc' = "enrich_l"
    /\ UNCHANGED <<db, engine, req, xyz, study_ids, studies_a, studies_b, meta,
                   conn, acquired, log, exc, ret, resp, isolated>>

\* "if dissoc_a_b or dissoc_b_a" (src/app.py 198)
LocationsNeedsLookup(ab, ba) == ab # <<>> \/ ba # <<>>

\* {r["study_id"]: r["title"] for r in meta_results}
MetaDict(rows) ==
    [i \in {r.study_id : r \in rows} |-> (CHOOSE r \in rows : r.study_id = i).title]

\* the metadata step of dissociate_locations (src/app.py 198-208)
EnrichLocations ==
    /\ pc = "enrich_l"
    /\ IF LocationsNeedsLookup(dissoc_a_b, dissoc_b_a)
       THEN /\ log' = Append(log, "META")
            /\ \E ok \in BOOLEAN :
                 IF ok
                 THEN /\ meta' = MetaDict(MetaRows(Range(dissoc_a_b) \cup Range(dissoc_b_a)))
                      /\ pc' = "exit"
                      /\ exc' = exc
                 ELSE /\ exc' = "metadata query failed"
                      /\ pc' = "unwind"
                      /\ meta' = meta
       ELSE /\ meta' = <<>>
            /\ pc' = "exit"
            /\ UNCHANGED <<log, exc>>
    /\ UNCHANGED <<db, engine, req, xyz, study_ids, studies_a, studies_b, dissoc_a_b,
                   dissoc_b_a, conn, acquired, ret, resp, isolated>>

\* the connection kept after the with block
Released_Leak(c) == c

\* connections held once the with block has been left
Released(c) == c - 1

\* the with block is left normally: commit, then the connection goes back
ExitCommit ==
    /\ pc = "exit"
    /\ log' = Append(log, "commit")
    /\ conn' = Released(conn)
    /\ \E ok \in BOOLEAN :
         IF ok
         THEN /\ pc' = IF req.endpoint = "terms" THEN "return" ELSE "render_l"
              /\ exc' = exc
         ELSE /\ exc' = "commit failed"
              /\ pc' = "except"
    /\ UNCHANGED <<db, engine, req, locals, acquired, ret, resp, isolated>>

\* the with block is left by an exception: rollback, then the connection goes back
ExitRollback ==
    /\ pc = "unwind"
    /\ log' = Append(log, "rollback")
    /\ conn' = Released(conn)
    /\ pc' = "except"
    /\ UNCHANGED <<db, engine, req, locals, acquired, exc, ret, resp, isolated>>

\* data and the return statement of dissociate_locations (src/app.py 211-255)
RenderLocations ==
    /\ pc = "render_l"
    /\ LET data == LocData(xyz[1], xyz[2], dissoc_a_b, dissoc_b_a, meta) IN
         resp' = IF AcceptHtml(req.accept)
                 THEN Html(LocationsPage(req.a, req.b, data), data)
                 ELSE Json(data, 200)
    /\ pc' = "done"
    /\ UNCHANGED <<db, engine, req, locals, conn, acquired, log, exc, ret, isolated>>

\* dissociate_terms returns the value of its return statement
Return ==
    /\ pc = "return"
    /\ resp' = ret
    /\ pc' = "done"
    /\ UNCHANGED <<db, engine, req, locals, conn, acquired, log, exc, ret, isolated>>

\* except Exception as e: return jsonify({"error": str(e)}), 500
Except ==
    /\ pc = "except"
    /\ resp' = Json([error |-> exc], 500)
    /\ pc' = "done"
    /\ UNCHANGED <<db, engine, req, locals, conn, acquired, log, exc, ret, isolated>>

\* the response has been sent; the worker waits for the next request
Finish ==
    /\ pc = "done"
    /\ pc' = "idle"
    /\ req' = NoReq
    /\ xyz' = Unbound
    /\ conn' = 0
    /\ acquired' = 0
    /\ log' = <<>>
    /\ study_ids' = Unbound
    /\ studies_a' = UnboundSet
    /\ studies_b' = UnboundSet
    /\ dissoc_a_b' = Unbound
    /\ dissoc_b_a' = Unbound
    /\ meta' = Unbound
    /\ exc' = NoExc
    /\ ret' = NoResp
    /\ resp' = NoResp
    /\ UNCHANGED <<db, engine, isolated>>

Next ==
    \/ Request
    \/ Parse
    \/ GetEngine
    \/ Begin
    \/ SetSearchPath
    \/ TermsQuery
    \/ EnrichTerms
    \/ RenderTerms
    \/ QueryA
    \/ QueryB
    \/ Difference
    \/ EnrichLocations
    \/ ExitCommit
    \/ ExitRollback
    \/ RenderLocations
    \/ Return
    \/ Except
    \/ Finish

Spec == Init /\ [][Next]_vars

(***************************************************************************)
(* Term matching in isolation: one term against one annotation term.       *)
(***************************************************************************)
ProbeChars == {"a", "A", "b", "_", "%", "\\"}

ProbeTexts == SeqsUpTo(ProbeChars, MaxLen)

InitMatch ==
    /\ DB_URL = NoUrl
    /\ annotations = {}
    /\ coordinates = {}
    /\ metadata = <<>>
    /\ engine = NoEngine
    /\ NoRequest
    /\ probe \in ProbeTexts \X ProbeTexts
    /\ matched = "unknown"

\* the WHERE predicate of the resolver applied to probe = <<term, annotation term>>
Probe ==
    /\ probe # <<>>
    /\ matched = "unknown"
    /\ matched' = IF TermMatches(probe[2], probe[1]) THEN "yes" ELSE "no"
    /\ UNCHANGED <<db, engine, pc, req, locals, conn, acquired, log, exc, ret, resp, probe>>

NextMatch == Probe

SpecMatch == InitMatch /\ [][NextMatch]_vars

(***************************************************************************)
(* Properties.                                                             *)
(***************************************************************************)
Done(ep) == pc = "done" /\ req.endpoint = ep

\* the study ids of a list of {study_id, title} entries
Ids(entries) == {entries[i].study_id : i \in DOMAIN entries}

\* C1: every study listed by dissociate_terms(a, b) has an annotation that
\* matches a and has no annotation that matches b, truncated or not.
C1_TermDifferenceSound ==
    (Done("terms") /\ resp.status = 200) =>
        \A sid \in Ids(resp.data.studies) :
            /\ \E r \in annotations : r[1] = sid /\ TermMatches(r[2], req.a)
            /\ \A r \in annotations : r[1] = sid => ~TermMatches(r[2], req.b)

\* C1 witness: a request whose difference was cut by the row cap and still lists a study
C1_Witness ==
    /\ Done("terms")
    /\ resp.status = 200
    /\ req.a # req.b
    /\ resp.data.studies # <<>>
    /\ Cardinality(ResolveTerm(req.a) \ ResolveTerm(req.b)) > Len(resp.data.studies)

\* C2: with A and B the sets get_studies returned for P and Q, A_minus_B and
\* B_minus_A are disjoint and each, united with the intersection, gives back
\* A respectively B.
C2_SymmetricDifference ==
    (Done("locations") /\ resp.status = 200) =>
        LET AB == Ids(resp.data.A_minus_B)
            BA == Ids(resp.data.B_minus_A)
        IN  /\ AB \cap BA = {}
            /\ AB \cup (studies_a \cap studies_b) = studies_a
            /\ BA \cup (studies_a \cap studies_b) = studies_b
            /\ studies_a \subseteq CoordRows(xyz[1])
            /\ studies_b \subseteq CoordRows(xyz[2])

\* C2 witness: both differences are non-empty
C2_Witness ==
    /\ Done("locations")
    /\ resp.status = 200
    /\ resp.data.A_minus_B # <<>>
    /\ resp.data.B_minus_A # <<>>

\* a coordinate segment that is not three numeric components joined by "_"
Malformed(s) ==
    \/ Cardinality({i \in DOMAIN s : s[i] = "_"}) # 2
    \/ \E i \in DOMAIN Split(s, "_") : ~IsFloat(Split(s, "_")[i])

\* C3: a malformed coordinate segment ends the request with 400 and an error
\* body, and the request never touches the store: no engine lookup, no
\* transaction, no statement.
C3_MalformedRejectedBeforeStore ==
    (req.endpoint = "locations" /\ (Malformed(req.a) \/ Malformed(req.b))) =>
        /\ log = <<>>
        /\ acquired = 0
        /\ conn = 0
        /\ pc \in {"parse", "done"}
        /\ pc = "done" =>
             /\ resp.status = 400
             /\ resp.kind = "json"
             /\ DOMAIN resp.data = {"error"}

\* C3 witness: the second segment alone is malformed and the request has ended
C3_Witness ==
    /\ Done("locations")
    /\ ~Malformed(req.a)
    /\ Malformed(req.b)
    /\ resp.status = 400

\* how specific a media range is
Specificity(r) == IF r.type = "*" THEN 0 ELSE IF r.subtype = "*" THEN 1 ELSE 2

\* the quality the client gives a media type: that of the most specific
\* matching item, 0 when none matches
QualityOf(value, accept) ==
    LET hits == {i \in DOMAIN accept : ValueMatches(value, accept[i].range)} IN
    IF hits = {} THEN 0
    ELSE accept[CHOOSE i \in hits :
                  \A j \in hits : Specificity(accept[j].range) <= Specificity(accept[i].range)].q

\* the client ranks markup strictly above structured data
PrefersMarkup(accept) == QualityOf(TextHtml, accept) > QualityOf(AppJson, accept)

\* C4: a successful response is markup exactly when the client ranks
\* text/html strictly above application/json; otherwise it is JSON.
C4_MarkupOnlyWhenPreferred ==
    (pc = "done" /\ resp.status = 200) =>
        /\ resp.kind = "html" => PrefersMarkup(req.accept)
        /\ ~PrefersMarkup(req.accept) => resp.kind = "json"

SpecialChars == {"<", ">", "&", "\"", "'"}

HasSpecial(v) == \E i \in DOMAIN v : v[i] \in SpecialChars

EscapeChar(c) ==
    CASE c = "<" -> <<"&", "l", "t", ";">>
      [] c = ">" -> <<"&", "g", "t", ";">>
      [] c = "&" -> <<"&", "a", "m", "p", ";">>
      [] c = "\"" -> <<"&", "#", "3", "4", ";">>
      [] c = "'" -> <<"&", "#", "3", "9", ";">>
      [] OTHER -> <<c>>

Escape(v) == Concat([i \in DOMAIN v |-> EscapeChar(v[i])])

\* the values a page interpolates: the two path segments and the titles shown
Interpolated ==
    {req.a, req.b} \cup
    (IF req.endpoint = "terms"
     THEN {resp.data.studies[i].title : i \in DOMAIN resp.data.studies}
     ELSE {resp.data.A_minus_B[i].title : i \in DOMAIN resp.data.A_minus_B}
          \cup {resp.data.B_minus_A[i].title : i \in DOMAIN resp.data.B_minus_A})

\* C5: in a rendered page every interpolated value with a markup-special
\* character appears escaped and never raw.
C5_MarkupEscaped ==
    (pc = "done" /\ resp.kind = "html") =>
        \A v \in Interpolated :
            HasSpecial(v) => Contains(resp.html, Escape(v)) /\ ~Contains(resp.html, v)

\* C6: an id of the difference without a metadata row is still listed, with
\* a null title: term mode lists exactly the ids of the difference query
\* (count and length equal their number), coordinate mode one entry per id
\* of each set difference.
C6_MissingMetadataKept ==
    /\ (Done("terms") /\ resp.status = 200) =>
          /\ resp.data.count = Len(study_ids)
          /\ Len(resp.data.studies) = Len(study_ids)
          /\ Ids(resp.data.studies) = Range(study_ids)
    /\ (Done("locations") /\ resp.status = 200) =>
          /\ Ids(resp.data.A_minus_B) = studies_a \ studies_b
          /\ Ids(resp.data.B_minus_A) = studies_b \ studies_a
          /\ Len(resp.data.A_minus_B) = Cardinality(studies_a \ studies_b)
          /\ Len(resp.data.B_minus_A) = Cardinality(studies_b \ studies_a)
          /\ \A e \in Range(resp.data.A_minus_B) \cup Range(resp.data.B_minus_A) :
                e.study_id \notin DOMAIN metadata => e.title = None

\* C7: a request in which a store step failed ends with status 500 and the
\* body {error: message}, and with nothing else.
C7_StoreFailureIsJson500 ==
    (pc = "done" /\ exc # NoExc) => resp = Json([error |-> exc], 500)

\* C8: an annotation term matches a term exactly when the lower-cased term is
\* a contiguous part of the lower-cased annotation term.
C8_SubstringMatch ==
    matched # "unknown" =>
        (matched = "yes" <=> Contains(Lower(probe[2]), Lower(probe[1])))

\* C9: with nothing to enrich no metadata query is sent, the titles stay
\* empty, and the request, if no store step fails, answers 200 with empty
\* lists (and count 0 in term mode).
C9_EmptyEnrichment ==
    /\ (req.endpoint = "terms" /\ study_ids = <<>>) =>
          /\ "META" \notin Range(log)
          /\ pc # "enrich_t" => meta = <<>>
          /\ (pc = "done" /\ exc = NoExc) =>
                /\ resp.status = 200
                /\ resp.data.count = 0
                /\ resp.data.studies = <<>>
    /\ (req.endpoint = "locations" /\ dissoc_a_b = <<>> /\ dissoc_b_a = <<>>) =>
          /\ "META" \notin Range(log)
          /\ pc # "enrich_l" => DOMAIN meta = {}
          /\ (pc = "done" /\ exc = NoExc) =>
                /\ resp.status = 200
                /\ resp.data.A_minus_B = <<>>
                /\ resp.data.B_minus_A = <<>>

\* C9 witness: a term request with an empty difference has answered 200
C9_Witness ==
    /\ Done("terms")
    /\ study_ids = <<>>
    /\ resp.status = 200
    /\ Range(log) = {"get_engine", "begin", "SET", "DIFF", "commit"}

Statements == {"SET", "DIFF", "COORD", "META"}

IsStatement(e) == e \in Statements

\* C10: a request checks out at most one connection, exactly one if it sends
\* any statement; SET search_path is its first statement; statements are
\* sent only while that connection is held; and the connection has been
\* given back by the time a response exists.
C10_OneScopedConnection ==
    /\ [](LET sent == SelectSeq(log, IsStatement) IN
          /\ acquired <= 1
          /\ conn \in {0, 1}
          /\ sent # <<>> => (sent[1] = "SET" /\ acquired = 1)
          /\ \A i \in DOMAIN sent : i > 1 => sent[i] # "SET"
          /\ (pc \in {"done", "idle", "return", "except", "render_l"} \/ resp # NoResp) => conn = 0)
    /\ [][(Len(log') > Len(log) /\ log'[Len(log')] \in Statements) => (conn = 1 /\ conn' = 1)]_vars

\* C10 witness: a query failed after the schema binding and the request has
\* ended with the connection given back
C10_Witness ==
    /\ pc = "done"
    /\ resp.status = 500
    /\ acquired = 1
    /\ conn = 0
    /\ Len(SelectSeq(log, IsStatement)) >= 2
    /\ "rollback" \in Range(log)

====
